---- MODULE Spec2Model ----
(***************************************************************************)
(* Model of opentelemetry/src/global/metrics.rs: the process-wide          *)
(* MeterProvider registry.  A OnceLock holds an RwLock holding an Arc to   *)
(* the current provider.  Threads call set_meter_provider, meter_provider, *)
(* meter and meter_with_scope concurrently; every call is split at the     *)
(* points where another thread can interleave (OnceLock initialisation,    *)
(* lock acquisition, the body under the lock, guard drop, return).         *)
(*                                                                         *)
(* Spec is the module under arbitrary interleaving, FairSpec adds fair     *)
(* scheduling of the threads, RaceSpec is the race of the threads' first   *)
(* calls into the empty OnceLock.  The history variables record what the   *)
(* callers and the diagnostics sink can observe; the properties C1..C19    *)
(* at the end are stated over them.                                        *)
(***************************************************************************)
EXTENDS Integers, Sequences, FiniteSets, TLC

\* ---- bounds of the model -------------------------------------------------
NumThreads == 2
\* number of calls (of any of the four functions) issued in a behaviour
MaxCalls == 3

Threads == 1..NumThreads

\* ---- values ---------------------------------------------------------------
\* The OnceLock is empty: there is no RwLock and no Arc yet.
Uninit == -1
\* The Arc created by the initialiser closure (metrics.rs:13).
NoopMeterProvider == 0
\* The Arc created by the k-th issued set_meter_provider call (metrics.rs:26):
\* every call allocates a fresh Arc, so handles are identified by call number.
Providers == 1..MaxCalls

AllHandles == {NoopMeterProvider} \cup Providers

\* Names handed to meter(): the empty name and an ordinary one.
Names == {"", "svc"}
NoName == "<no name>"
\* Instrumentation scopes handed to meter_with_scope() (doc example, lines 62-66).
Scope(n, v, u, a) == [name |-> n, version |-> v, schema_url |-> u, attributes |-> a]
Scopes == {Scope("io.opentelemetry", "0.17", "https://opentelemetry.io/schema/1.2.0",
                 {<<"key", "value">>})}
NoScope == Scope("", "", "", {})

ReadKinds == {"get", "meter", "scope"}

VARIABLES
    once,        \* state of the OnceLock: "uninit", "running", "done"
    initCount,   \* how many times the get_or_init closure has run
    provider,    \* the Arc stored in the RwLock (Uninit while the OnceLock is empty)
    writer,      \* thread holding the write guard, 0 if none
    readers,     \* threads holding a read guard
    poisoned,    \* poison flag of the RwLock
    pc,          \* position of every thread inside its current call
    op,          \* the current call of every thread: arguments and locals
    nextProv,    \* number of the next Arc a set_meter_provider call will create
    issued,      \* number of calls issued so far (calls are numbered by issue)
    writes,      \* history: the handles stored in the RwLock, in order
    events,      \* history: the diagnostic events emitted, in order
    completed,   \* history: set_meter_provider calls in the order they returned
    setLog,      \* history: per set_meter_provider call, the calls that had
                 \* returned when it was issued, whether the lock was poisoned
                 \* when it got the write guard, and the handle the lock held then
    obs,         \* history: handles returned by meter_provider / delegated calls
    panics,      \* history: calls that unwound with a panic
    strong,      \* per handle: the strong count of the Arc
    held,        \* per handle: clones returned by meter_provider() that callers keep
    dropped      \* history: the handles whose provider value has been dropped

vars == <<once, initCount, provider, writer, readers, poisoned, pc, op, nextProv,
          issued, writes, events, completed, setLog, obs, panics, strong, held,
          dropped>>

lockVars == <<writer, readers, poisoned>>
histVars == <<writes, events, completed, setLog, obs, panics>>
arcVars == <<strong, held, dropped>>

Range(s) == {s[i] : i \in 1..Len(s)}

NoOp == [id |-> 0, kind |-> "none", prov |-> 0, name |-> NoName, scope |-> NoScope,
         local |-> Uninit, ok |-> TRUE, pois |-> FALSE, done |-> {}, widx |-> 0]

Init ==
    /\ once = "uninit"
    /\ initCount = 0
    /\ provider = Uninit
    /\ writer = 0
    /\ readers = {}
    /\ poisoned = FALSE
    /\ pc = [t \in Threads |-> "idle"]
    /\ op = [t \in Threads |-> NoOp]
    /\ nextProv = 1
    /\ issued = 0
    /\ writes = <<>>
    /\ events = <<>>
    /\ completed = <<>>
    /\ setLog = <<>>
    /\ obs = {}
    /\ panics = {}
    /\ strong = [h \in AllHandles |-> 0]
    /\ held = [h \in AllHandles |-> 0]
    /\ dropped = {}

\* ---- helpers modelling single expressions of the source --------------------

\* OnceLock::get_or_init returns without running or awaiting the closure only
\* when the cell is fully initialised.
OnceReadyEarly == once # "uninit"
OnceReady == once = "done"

\* RwLock::write() is granted when nobody holds the lock.
CanWriteIgnoringReaders == writer = 0
CanWrite == writer = 0 /\ readers = {}
\* RwLock::read() is granted when no writer holds the lock.
CanRead == writer = 0

\* The LockResult of write(): Ok unless the lock is poisoned (line 25).
WriteOkIgnoringPoison == TRUE
WriteOk == ~poisoned

\* The LockResult of read(): Ok unless the lock is poisoned (lines 36-37).
ReadOkIgnoringPoison == TRUE
ReadOk == ~poisoned

\* `.clone()` on the read guard: the Arc the RwLock holds now (line 38).
ClonedHandleStale == IF writes = <<>> THEN provider ELSE writes[1]
ClonedHandleCached ==
    IF obs = {} THEN provider
    ELSE (CHOOSE o \in obs : \A o2 \in obs : o.id <= o2.id).handle
ClonedHandle == provider

\* Arc<dyn MeterProvider> (line 5): Arc::new starts the strong count at one,
\* clone adds one, dropping an Arc takes one away, and dropping the last Arc
\* drops the provider value.
ArcNew(s, h) == [s EXCEPT ![h] = 1]
ArcCloneUncounted(s, h) == s
ArcClone(s, h) == IF h \in DOMAIN s THEN [s EXCEPT ![h] = @ + 1] ELSE s
ArcDrop(s, h) == IF h \in DOMAIN s THEN [s EXCEPT ![h] = @ - 1] ELSE s
LastRef(h) == h \in DOMAIN strong /\ strong[h] = 1
DroppedAfter(h) == IF LastRef(h) THEN dropped \cup {h} ELSE dropped

\* The name meter() hands to the provider (line 47).
PassedNameDefaulted(n) == IF n = "" THEN "default" ELSE n
PassedName(n) == n

\* The scope meter_with_scope() hands to the provider (line 71).
PassedScopeNoAttrs(s) == [s EXCEPT !.attributes = {}]
PassedScope(s) == s

\* Where a call continues once global_meter_provider() has returned.
AfterOnce(t) == IF op[t].kind = "set" THEN "write" ELSE "read"

\* ---- issuing a call ---------------------------------------------------------

\* A thread that is not inside a call issues the next one.  No state of a
\* thread outlives its call, so idle threads are interchangeable and the call
\* is given to the lowest-numbered idle thread.
CanCall(t) ==
    /\ pc[t] = "idle"
    /\ \A u \in Threads : u < t => pc[u] # "idle"
    /\ issued < MaxCalls

\* A thread calls set_meter_provider(new_provider) (line 18).
CallSet(t) ==
    /\ CanCall(t)
    /\ op' = [op EXCEPT ![t] = [NoOp EXCEPT !.id = issued + 1, !.kind = "set",
                                            !.prov = nextProv,
                                            !.done = Range(completed)]]
    /\ setLog' = Append(setLog, [done |-> Range(completed), state |-> "pending",
                                 before |-> Uninit])
    /\ nextProv' = nextProv + 1
    /\ issued' = issued + 1
    /\ pc' = [pc EXCEPT ![t] = "once"]
    /\ UNCHANGED <<once, initCount, provider, lockVars, writes, events, completed,
                   obs, panics>>
    /\ UNCHANGED arcVars

\* A thread calls meter_provider() (line 34), meter(name) (line 46) or
\* meter_with_scope(scope) (line 70).
CallRead(t) ==
    /\ CanCall(t)
    /\ \E k \in ReadKinds :
         \E n \in (IF k = "meter" THEN Names ELSE {NoName}) :
           \E sc \in (IF k = "scope" THEN Scopes ELSE {NoScope}) :
             op' = [op EXCEPT ![t] = [NoOp EXCEPT !.id = issued + 1, !.kind = k,
                                                  !.name = n, !.scope = sc,
                                                  !.done = Range(completed)]]
    /\ issued' = issued + 1
    /\ pc' = [pc EXCEPT ![t] = "once"]
    /\ UNCHANGED <<once, initCount, provider, lockVars, nextProv, histVars>>
    /\ UNCHANGED arcVars

\* ---- global_meter_provider(): OnceLock::get_or_init (lines 11-14) -----------

\* The cell is initialised: the reference to the RwLock is returned.
OnceGet(t) ==
    /\ pc[t] = "once"
    /\ OnceReady
    /\ pc' = [pc EXCEPT ![t] = AfterOnce(t)]
    /\ UNCHANGED <<once, initCount, provider, lockVars, op, nextProv, issued,
                   histVars>>
    /\ UNCHANGED arcVars

\* As OnceBegin below, without marking the cell as being initialised.
OnceBeginRacy(t) ==
    /\ pc[t] = "once"
    /\ once = "uninit"
    /\ pc' = [pc EXCEPT ![t] = "once_run"]
    /\ UNCHANGED <<once, initCount, provider, lockVars, op, nextProv, issued, histVars>>
    /\ UNCHANGED arcVars

\* The cell is empty: this thread wins the right to run the closure.  While
\* once = "running" every other caller of get_or_init waits.
OnceBegin(t) ==
    /\ pc[t] = "once"
    /\ once = "uninit"
    /\ once' = "running"
    /\ pc' = [pc EXCEPT ![t] = "once_run"]
    /\ UNCHANGED <<initCount, provider, lockVars, op, nextProv, issued, histVars>>
    /\ UNCHANGED arcVars

\* The closure: RwLock::new(Arc::new(NoopMeterProvider::new())) (line 13).
OnceRun(t) ==
    /\ pc[t] = "once_run"
    /\ provider' = NoopMeterProvider
    /\ writes' = Append(writes, NoopMeterProvider)
    /\ initCount' = initCount + 1
    /\ once' = "done"
    /\ pc' = [pc EXCEPT ![t] = AfterOnce(t)]
    /\ UNCHANGED <<lockVars, op, nextProv, issued, events, completed, setLog,
                   obs, panics>>
    /\ strong' = ArcNew(strong, NoopMeterProvider)
    /\ UNCHANGED <<held, dropped>>

\* ---- set_meter_provider (lines 18-31) ---------------------------------------

\* `global_meter_provider().write()` (line 23).  The guard is held whether the
\* result is Ok or Err(PoisonError): the error carries the guard.
\* As SetWrite below, with the acquisition clearing the poison flag.
SetWriteClearPoison(t) ==
    /\ pc[t] = "write"
    /\ CanWrite
    /\ writer' = t
    /\ poisoned' = FALSE
    /\ op' = [op EXCEPT ![t].ok = TRUE, ![t].pois = poisoned]
    /\ setLog' = [setLog EXCEPT ![op[t].prov].state = "clean",
                                ![op[t].prov].before = provider]
    /\ pc' = [pc EXCEPT ![t] = "store"]
    /\ UNCHANGED <<once, initCount, provider, readers, nextProv, issued,
                   writes, events, completed, obs, panics>>
    /\ UNCHANGED arcVars

SetWrite(t) ==
    /\ pc[t] = "write"
    /\ CanWrite
    /\ writer' = t
    /\ op' = [op EXCEPT ![t].ok = WriteOk, ![t].pois = poisoned]
    /\ setLog' = [setLog EXCEPT ![op[t].prov].state =
                                    IF poisoned THEN "poisoned" ELSE "clean",
                                ![op[t].prov].before = provider]
    /\ pc' = [pc EXCEPT ![t] = IF WriteOk THEN "store" ELSE "log"]
    /\ UNCHANGED <<once, initCount, provider, readers, poisoned, nextProv, issued,
                   writes, events, completed, obs, panics>>
    /\ UNCHANGED arcVars

\* As SetStore below, storing into a copy instead of through the guard.
SetStoreLocal(t) ==
    /\ pc[t] = "store"
    /\ pc' = [pc EXCEPT ![t] = "log"]
    /\ UNCHANGED <<once, initCount, provider, lockVars, op, nextProv, issued, histVars>>
    /\ UNCHANGED arcVars

\* As SetStore below, storing only over the default provider.
SetStoreFirstOnly(t) ==
    /\ pc[t] = "store"
    /\ provider' = IF provider = NoopMeterProvider THEN op[t].prov ELSE provider
    /\ writes' = IF provider = NoopMeterProvider THEN Append(writes, op[t].prov)
                  ELSE writes
    /\ pc' = [pc EXCEPT ![t] = "log"]
    /\ UNCHANGED <<once, initCount, lockVars, op, nextProv, issued, events,
                   completed, setLog, obs, panics>>
    /\ strong' = IF provider = NoopMeterProvider
                 THEN ArcNew(ArcDrop(strong, provider), op[t].prov) ELSE strong
    /\ dropped' = IF provider = NoopMeterProvider THEN DroppedAfter(provider)
                   ELSE dropped
    /\ UNCHANGED held

\* As SetStore below, dropping the write guard with the store, before the
\* diagnostic event is emitted.
SetStoreUnlocks(t) ==
    /\ pc[t] = "store"
    /\ provider' = op[t].prov
    /\ writes' = Append(writes, op[t].prov)
    /\ writer' = 0
    /\ pc' = [pc EXCEPT ![t] = "log"]
    /\ UNCHANGED <<once, initCount, readers, poisoned, op, nextProv, issued,
                   events, completed, setLog, obs, panics>>
    /\ strong' = ArcNew(ArcDrop(strong, provider), op[t].prov)
    /\ dropped' = DroppedAfter(provider)
    /\ UNCHANGED held

\* `**provider = Arc::new(new_provider)` (line 26): the old Arc is dropped and
\* the new one stored.
SetStore(t) ==
    /\ pc[t] = "store"
    /\ provider' = op[t].prov
    /\ writes' = Append(writes, op[t].prov)
    /\ pc' = [pc EXCEPT ![t] = "log"]
    /\ UNCHANGED <<once, initCount, lockVars, op, nextProv, issued, events,
                   completed, setLog, obs, panics>>
    /\ strong' = ArcNew(ArcDrop(strong, provider), op[t].prov)
    /\ dropped' = DroppedAfter(provider)
    /\ UNCHANGED held

\* Line 26 when dropping the old Arc runs a provider destructor that panics:
\* the old Arc is the last reference to a provider a caller supplied (the
\* no-op default has no destructor code).  The assignment still stores the new
\* Arc on the unwind path, and the write guard is dropped while panicking,
\* which poisons the lock (std::sync::RwLock).
SetStorePanic(t) ==
    /\ pc[t] = "store"
    /\ provider # NoopMeterProvider
    /\ LastRef(provider)
    /\ provider' = op[t].prov
    /\ writes' = Append(writes, op[t].prov)
    /\ poisoned' = TRUE
    /\ writer' = 0
    /\ panics' = panics \cup {[id |-> op[t].id, kind |-> "set", prov |-> op[t].prov]}
    /\ op' = [op EXCEPT ![t] = NoOp]
    /\ pc' = [pc EXCEPT ![t] = "idle"]
    /\ UNCHANGED <<once, initCount, readers, nextProv, issued, events, completed,
                   setLog, obs>>
    /\ strong' = ArcNew(ArcDrop(strong, provider), op[t].prov)
    /\ dropped' = DroppedAfter(provider)
    /\ UNCHANGED held

\* As SetLog below, reporting success on both paths.
SetLogAlwaysSet(t) ==
    /\ pc[t] = "log"
    /\ events' = Append(events, [name |-> "MeterProvider.GlobalSet",
                                 prov |-> op[t].prov])
    /\ pc' = [pc EXCEPT ![t] = "unlock"]
    /\ UNCHANGED <<once, initCount, provider, lockVars, op, nextProv, issued,
                   writes, completed, setLog, obs, panics, arcVars>>

\* otel_info!(MeterProvider.GlobalSet) (line 27) or
\* otel_error!(MeterProvider.GlobalSetFailed) (line 29).
SetLog(t) ==
    /\ pc[t] = "log"
    /\ events' = Append(events, [name |-> IF op[t].ok THEN "MeterProvider.GlobalSet"
                                          ELSE "MeterProvider.GlobalSetFailed",
                                 prov |-> op[t].prov])
    /\ pc' = [pc EXCEPT ![t] = "unlock"]
    /\ UNCHANGED <<once, initCount, provider, lockVars, op, nextProv, issued,
                   writes, completed, setLog, obs, panics>>
    /\ UNCHANGED arcVars

\* As SetUnlock below, leaking the write guard instead of dropping it.
SetUnlockLeak(t) ==
    /\ pc[t] = "unlock"
    /\ pc' = [pc EXCEPT ![t] = "set_ret"]
    /\ UNCHANGED <<once, initCount, provider, lockVars, op, nextProv, issued,
                   histVars, arcVars>>

\* End of the function body (line 31): `global_provider` goes out of scope and
\* the write guard is dropped.
SetUnlock(t) ==
    /\ pc[t] = "unlock"
    /\ writer' = 0
    /\ pc' = [pc EXCEPT ![t] = "set_ret"]
    /\ UNCHANGED <<once, initCount, provider, readers, poisoned, op, nextProv, issued, histVars>>
    /\ UNCHANGED arcVars

\* set_meter_provider returns to its caller.
SetReturn(t) ==
    /\ pc[t] = "set_ret"
    /\ completed' = Append(completed, op[t].prov)
    /\ op' = [op EXCEPT ![t] = NoOp]
    /\ pc' = [pc EXCEPT ![t] = "idle"]
    /\ UNCHANGED <<once, initCount, provider, lockVars, nextProv, issued, writes,
                   events, setLog, obs, panics>>
    /\ UNCHANGED arcVars

\* ---- meter_provider (lines 34-39) -------------------------------------------

\* As ReadClone below, moving the Arc out of the RwLock and leaving the default.
ReadCloneTake(t) ==
    /\ pc[t] = "read"
    /\ CanRead
    /\ ReadOk
    /\ readers' = readers \cup {t}
    /\ op' = [op EXCEPT ![t].ok = ReadOk, ![t].pois = poisoned,
                        ![t].local = ClonedHandle, ![t].widx = Len(writes)]
    /\ provider' = NoopMeterProvider
    /\ strong' = ArcNew(strong, NoopMeterProvider)
    /\ pc' = [pc EXCEPT ![t] = "read_unlock"]
    /\ UNCHANGED <<once, initCount, writer, poisoned, nextProv, issued, histVars,
                   held, dropped>>

\* `global_meter_provider().read().expect(..).clone()` (lines 35-38) when the
\* lock is not poisoned: the read guard is taken and the Arc cloned under it.
\* Nothing can change the RwLock's content or poison flag while a read guard
\* is held, so acquiring and cloning are one step.
ReadClone(t) ==
    /\ pc[t] = "read"
    /\ CanRead
    /\ ReadOk
    /\ readers' = readers \cup {t}
    /\ op' = [op EXCEPT ![t].ok = ReadOk, ![t].pois = poisoned,
                        ![t].local = ClonedHandle, ![t].widx = Len(writes)]
    /\ pc' = [pc EXCEPT ![t] = "read_unlock"]
    /\ UNCHANGED <<once, initCount, provider, writer, poisoned, nextProv, issued,
                   histVars>>
    /\ strong' = ArcClone(strong, provider)
    /\ UNCHANGED <<held, dropped>>

\* The same expression when read() returns Err(PoisonError):
\* `.expect("GLOBAL_METER_PROVIDER RwLock poisoned")` panics (line 37) and the
\* read guard inside the error is dropped while unwinding.
ReadPanic(t) ==
    /\ pc[t] = "read"
    /\ CanRead
    /\ ~ReadOk
    /\ panics' = panics \cup {[id |-> op[t].id, kind |-> op[t].kind, prov |-> 0]}
    /\ op' = [op EXCEPT ![t] = NoOp]
    /\ pc' = [pc EXCEPT ![t] = "idle"]
    /\ UNCHANGED <<once, initCount, provider, lockVars, nextProv, issued, writes,
                   events, completed, setLog, obs>>
    /\ UNCHANGED arcVars

\* As ReadUnlock below, keeping the read guard alive across the delegated call.
ReadUnlockKeepsGuard(t) ==
    /\ pc[t] = "read_unlock"
    /\ pc' = [pc EXCEPT ![t] = IF op[t].kind = "get" THEN "get_ret" ELSE "delegate"]
    /\ UNCHANGED <<once, initCount, provider, lockVars, op, nextProv, issued,
                   histVars, arcVars>>

\* End of meter_provider's body (line 39): the temporary read guard is dropped
\* before the clone is handed to the caller.
ReadUnlock(t) ==
    /\ pc[t] = "read_unlock"
    /\ readers' = readers \ {t}
    /\ pc' = [pc EXCEPT ![t] = IF op[t].kind = "get" THEN "get_ret" ELSE "delegate"]
    /\ UNCHANGED <<once, initCount, provider, writer, poisoned, op, nextProv, issued, histVars>>
    /\ UNCHANGED arcVars

\* What a finished read call is remembered by.
Observation(t, pn, ps) ==
    [id |-> op[t].id, kind |-> op[t].kind,
     name |-> op[t].name, scope |-> op[t].scope, pname |-> pn, pscope |-> ps,
     handle |-> op[t].local, pois |-> op[t].pois, done |-> op[t].done,
     next |-> nextProv, widx |-> op[t].widx]

\* meter_provider() returns the clone to an outside caller.
GetReturn(t) ==
    /\ pc[t] = "get_ret"
    /\ obs' = obs \cup {Observation(t, NoName, NoScope)}
    /\ op' = [op EXCEPT ![t] = NoOp]
    /\ pc' = [pc EXCEPT ![t] = "idle"]
    /\ UNCHANGED <<once, initCount, provider, lockVars, nextProv, issued, writes,
                   events, completed, setLog, panics>>
    /\ held' = IF op[t].local \in DOMAIN held
               THEN [held EXCEPT ![op[t].local] = @ + 1] ELSE held
    /\ UNCHANGED <<strong, dropped>>

\* ---- meter (lines 46-48) and meter_with_scope (lines 70-72) -----------------

\* `meter_provider().meter(name)`: the provider the clone refers to is asked
\* for a meter, the temporary clone is dropped at the end of the expression
\* and the meter is returned.
MeterDelegate(t) ==
    /\ pc[t] = "delegate"
    /\ op[t].kind = "meter"
    /\ obs' = obs \cup {Observation(t, PassedName(op[t].name), NoScope)}
    /\ op' = [op EXCEPT ![t] = NoOp]
    /\ pc' = [pc EXCEPT ![t] = "idle"]
    /\ UNCHANGED <<once, initCount, provider, lockVars, nextProv, issued, writes,
                   events, completed, setLog, panics>>
    /\ strong' = ArcDrop(strong, op[t].local)
    /\ dropped' = DroppedAfter(op[t].local)
    /\ UNCHANGED held

\* `meter_provider().meter_with_scope(scope)`.
ScopeDelegate(t) ==
    /\ pc[t] = "delegate"
    /\ op[t].kind = "scope"
    /\ obs' = obs \cup {Observation(t, NoName, PassedScope(op[t].scope))}
    /\ op' = [op EXCEPT ![t] = NoOp]
    /\ pc' = [pc EXCEPT ![t] = "idle"]
    /\ UNCHANGED <<once, initCount, provider, lockVars, nextProv, issued, writes,
                   events, completed, setLog, panics>>
    /\ strong' = ArcDrop(strong, op[t].local)
    /\ dropped' = DroppedAfter(op[t].local)
    /\ UNCHANGED held

\* ---- callers of meter_provider() ------------------------------------------------

\* A caller drops a clone it got from meter_provider().
CallerDrop(h) ==
    /\ held[h] > 0
    /\ held' = [held EXCEPT ![h] = @ - 1]
    /\ strong' = ArcDrop(strong, h)
    /\ dropped' = DroppedAfter(h)
    /\ UNCHANGED <<once, initCount, provider, lockVars, pc, op, nextProv, issued,
                   histVars>>

\* ---- the system ---------------------------------------------------------------

Step(t) ==
    \/ CallSet(t)
    \/ CallRead(t)
    \/ OnceGet(t)
    \/ OnceBegin(t)
    \/ OnceRun(t)
    \/ SetWrite(t)
    \/ SetStore(t)
    \/ SetStorePanic(t)
    \/ SetLog(t)
    \/ SetUnlock(t)
    \/ SetReturn(t)
    \/ ReadClone(t)
    \/ ReadPanic(t)
    \/ ReadUnlock(t)
    \/ GetReturn(t)
    \/ MeterDelegate(t)
    \/ ScopeDelegate(t)

Next ==
    \/ \E t \in Threads : Step(t)
    \/ \E h \in AllHandles : CallerDrop(h)

Spec == Init /\ [][Next]_vars

\* The steps inside a call that return normally from the step.
Running(t) ==
    \/ OnceGet(t) \/ OnceBegin(t) \/ OnceRun(t)
    \/ SetWrite(t) \/ SetStore(t) \/ SetLog(t) \/ SetUnlock(t) \/ SetReturn(t)
    \/ ReadClone(t) \/ ReadUnlock(t)
    \/ GetReturn(t) \/ MeterDelegate(t) \/ ScopeDelegate(t)

\* Threads are scheduled fairly: a call that can take its next step takes it.
InCall(t) == Running(t) \/ ReadPanic(t)

FairSpec == Spec /\ \A t \in Threads : WF_vars(InCall(t))

\* The racing first calls: every thread issues one call before any call has
\* returned or panicked, so each call is its thread's first and all of them
\* run concurrently from an empty OnceLock.  No provider destructor panics in
\* the race, so the lock is never poisoned.
NoCallFinished == obs = {} /\ completed = <<>> /\ panics = {}

FirstCallSet(t) == NoCallFinished /\ CallSet(t)
FirstCallRead(t) == NoCallFinished /\ CallRead(t)

RaceStep(t) ==
    \/ FirstCallSet(t)
    \/ FirstCallRead(t)
    \/ Running(t)

RaceNext == \E t \in Threads : RaceStep(t)

RaceSpec == Init /\ [][RaceNext]_vars /\ \A t \in Threads : WF_vars(Running(t))

TypeOK ==
    /\ once \in {"uninit", "running", "done"}
    /\ provider \in {Uninit, NoopMeterProvider} \cup Providers
    /\ writer \in {0} \cup Threads
    /\ readers \subseteq Threads
    /\ poisoned \in BOOLEAN
    /\ strong \in [AllHandles -> 0..(MaxCalls + 1)]
    /\ held \in [AllHandles -> 0..MaxCalls]
    /\ dropped \subseteq AllHandles

\* ---- vocabulary of the properties ---------------------------------------------

\* Finished meter / meter_with_scope calls: each made a call on a provider.
Delegations == {o \in obs : o.kind \in {"meter", "scope"}}
\* Finished meter_provider calls: each returned a handle.
Gets == {o \in obs : o.kind = "get"}

\* The handles that exist: the default and one per issued set_meter_provider.
Handles == {NoopMeterProvider} \cup (1..(nextProv - 1))

Installed(h) == h \in Range(writes)
\* Position of a handle in the order in which the RwLock has held handles.
InstallIdx(h) == CHOOSE i \in 1..Len(writes) : writes[i] = h

\* Threads that have left global_meter_provider() with a reference to the RwLock.
HasLockRef(t) == pc[t] \notin {"idle", "once", "once_run"}
\* Threads holding a cloned handle.
HasClone(t) == pc[t] \in {"read_unlock", "get_ret", "delegate"}

\* ---- C1 ------------------------------------------------------------------------
\* C1: a meter or meter_with_scope call issued after a set_meter_provider(P)
\* call has returned delegates to P or to a handle installed after P, never to
\* a handle the RwLock held before P was installed.
C1_SetTakesEffect ==
    \A o \in Delegations : \A p \in o.done :
        /\ Installed(p)
        /\ Installed(o.handle)
        /\ InstallIdx(o.handle) >= InstallIdx(p)

\* A meter call issued after a set_meter_provider call had returned has
\* delegated to the provider of a still later set_meter_provider call.
C1_Witness ==
    \E o \in Delegations :
        /\ o.done # {}
        /\ o.handle \in Providers
        /\ o.handle \notin o.done

\* ---- C2 ------------------------------------------------------------------------
\* C2: once the OnceLock is initialised the RwLock holds one handle, the no-op
\* default or the argument of a set_meter_provider call that obtained the write
\* guard unpoisoned; no caller of meter_provider, meter or meter_with_scope
\* holds or is handed an uninitialised binding.
C2_AlwaysOneProvider ==
    /\ once = "done" =>
         /\ provider \in Handles
         /\ provider # NoopMeterProvider => setLog[provider].state = "clean"
    /\ \A t \in Threads : HasLockRef(t) => once = "done"
    /\ \A t \in Threads : HasClone(t) => op[t].local \in Handles
    /\ \A o \in obs : o.handle \in {NoopMeterProvider} \cup (1..(o.next - 1))

\* The default has been observed by a caller and a set provider is installed.
C2_Witness ==
    /\ once = "done"
    /\ provider \in Providers
    /\ \E o \in obs : o.handle = NoopMeterProvider
    /\ \E o \in obs : o.handle \in Providers

\* ---- C3 ------------------------------------------------------------------------
\* The closure of get_or_init has run at most once, it has run exactly once
\* when the cell is initialised, and every thread that got a reference to the
\* RwLock got the one the closure created.
OnceExactlyOnce ==
    /\ initCount <= 1
    /\ (once = "done") <=> (initCount = 1)
    /\ once # "done" => provider = Uninit /\ writes = <<>>
    /\ once = "done" => writes[1] = NoopMeterProvider
    /\ Cardinality({t \in Threads : pc[t] = "once_run"})
         = (IF once = "running" THEN 1 ELSE 0)
    /\ \A t \in Threads : HasLockRef(t) => once = "done"

\* C3: when threads race into their first call, the default construction runs
\* exactly once, the losers use the binding the winner created, and no thread
\* waits in get_or_init forever.
C3_InitOnce ==
    /\ []OnceExactlyOnce
    /\ \A t \in Threads : (pc[t] = "once") ~> (pc[t] # "once")

\* One thread runs the closure while another waits in get_or_init.
C3_Witness ==
    \E t, u \in Threads : pc[t] = "once_run" /\ pc[u] = "once" /\ once = "running"

\* ---- C4 ------------------------------------------------------------------------
\* The set_meter_provider calls issued by the time the read call o finished.
SetsBy(o) == 1..(o.next - 1)

\* p2 had returned when o was issued, and every other set_meter_provider call
\* issued before o finished (there is at least one) had returned before p2 was
\* issued: p2 is the last of a sequence of sets, and no further set follows.
LastOfSequence(o, p2) ==
    /\ p2 \in o.done
    /\ SetsBy(o) \ {p2} # {}
    /\ SetsBy(o) \ {p2} \subseteq setLog[p2].done

\* C4: when set_meter_provider(P1) returns before set_meter_provider(P2) is
\* called, every meter_provider, meter or meter_with_scope call issued after
\* both have returned, with no further set_meter_provider, observes P2.
C4_LastWriterWins ==
    \A o \in obs : \A p2 \in Providers :
        (p2 < o.next /\ LastOfSequence(o, p2)) => o.handle = p2

\* A read call issued after two sequential sets has finished.
C4_Witness ==
    \E o \in obs : \E p2 \in Providers : p2 < o.next /\ LastOfSequence(o, p2)

\* ---- C5 ------------------------------------------------------------------------
\* pa and pb are two set_meter_provider calls that overlapped in time (pb was
\* issued before pa returned), both had returned when meter_provider call o was
\* issued, and no other set_meter_provider call was issued before o finished.
ConcurrentPair(o, pa, pb) ==
    /\ pa < pb
    /\ SetsBy(o) = {pa, pb}
    /\ o.done = {pa, pb}
    /\ pa \notin setLog[pb].done

\* The one of two returned set calls that returned last.
ReturnedLast(pa, pb) ==
    LET i == CHOOSE k \in 1..Len(completed) : completed[k] = pa
        j == CHOOSE k \in 1..Len(completed) : completed[k] = pb
    IN  IF i > j THEN pa ELSE pb

\* C5 as stated: after two concurrent set_meter_provider calls have returned,
\* meter_provider() returns the provider of the call that returned last.
C5_LastReturnedWins ==
    \A o \in Gets : \A pa, pb \in Providers :
        ConcurrentPair(o, pa, pb) => o.handle = ReturnedLast(pa, pb)

\* C5 amended: after two concurrent set_meter_provider calls have returned,
\* meter_provider() returns the provider of one of the two, namely of the call
\* that held the write guard last (whose store came last); it is never the
\* previous provider.
C5_LastStoreWins ==
    \A o \in Gets : \A pa, pb \in Providers :
        ConcurrentPair(o, pa, pb) =>
            /\ Installed(pa) /\ Installed(pb)
            /\ o.handle \in {pa, pb}
            /\ InstallIdx(o.handle) >= InstallIdx(pa)
            /\ InstallIdx(o.handle) >= InstallIdx(pb)

\* meter_provider() has returned after two overlapping sets, and the set
\* whose store came last is not the one that returned last.
C5_Witness ==
    \E o \in Gets : \E pa, pb \in Providers :
        /\ ConcurrentPair(o, pa, pb)
        /\ o.handle # ReturnedLast(pa, pb)

\* ---- C6 ------------------------------------------------------------------------
SetEvent(n, p) == [name |-> n, prov |-> p]
\* The thread inside set_meter_provider call p holds the write guard on its
\* error path or is about to return.
OnErrorPath(p) ==
    \E t \in Threads :
        /\ op[t].kind = "set" /\ op[t].prov = p
        /\ pc[t] \in {"log", "unlock", "set_ret"}
        /\ pc[t] # "log" => SetEvent("MeterProvider.GlobalSetFailed", p) \in Range(events)

C7_PoisonedReadPanics ==
    /\ \A o \in obs : ~o.pois
    /\ \A t \in Threads : HasClone(t) => ~op[t].pois
    /\ poisoned => readers = {}
    /\ \A x \in panics : x.kind \in ReadKinds => poisoned

\* A meter or meter_with_scope call has panicked on the poisoned lock.
C7_Witness ==
    \E x \in panics : x.kind \in {"meter", "scope"}

\* ---- C8 ------------------------------------------------------------------------
\* C8: while no set_meter_provider call has been made, every meter call,
\* concurrent first calls and the empty name included, delegates to the no-op
\* provider with the name it was given, and none panics or sees an
\* uninitialised binding.
C8_DefaultIsNoop ==
    /\ \A o \in Delegations :
         o.next = 1 => /\ o.handle = NoopMeterProvider
                       /\ o.kind = "meter" => o.pname = o.name
    /\ nextProv = 1 =>
         /\ panics = {}
         /\ ~poisoned
         /\ \A t \in Threads : HasClone(t) => op[t].local = NoopMeterProvider

\* With no set_meter_provider call made, two threads that raced through their
\* first meter calls hold the no-op provider, and the empty name was delegated.
C8_Witness ==
    /\ nextProv = 1
    /\ \E o \in Delegations : o.kind = "meter" /\ o.name = "" /\ o.next = 1
    /\ \E t, u \in Threads :
         /\ t # u
         /\ pc[t] = "delegate" /\ op[t].kind = "meter"
         /\ pc[u] = "delegate" /\ op[u].kind = "meter"

\* ---- C9 ------------------------------------------------------------------------
\* o1 finished before set_meter_provider call p was issued, and p had returned
\* when o2 was issued.
Separated(o1, p, o2) == o1.next <= p /\ p \in o2.done

\* C9: meter and meter_with_scope keep no cache: each call makes one
\* delegated call, on the handle the RwLock held when that call read it, so
\* two calls separated by a completed set_meter_provider delegate to different
\* providers.
C9_NoCache ==
    /\ \A o \in Delegations : o.widx \in 1..Len(writes) /\ o.handle = writes[o.widx]
    /\ \A o1, o2 \in Delegations : o1.id = o2.id => o1 = o2
    /\ \A o1, o2 \in Delegations : \A p \in Providers :
         Separated(o1, p, o2) => o1.handle # o2.handle

\* Two meter calls separated by a completed set_meter_provider have delegated.
C9_Witness ==
    \E o1, o2 \in Delegations : \E p \in Providers : Separated(o1, p, o2)

\* ---- C10 -----------------------------------------------------------------------
\* C10: meter_with_scope hands the provider exactly the scope it was given
\* (name, version, schema URL, attributes) and meter exactly the name it was
\* given.
C10_ArgumentsUnchanged ==
    \A o \in Delegations :
        /\ o.kind = "meter" => o.pname = o.name
        /\ o.kind = "scope" =>
             /\ o.pscope.name = o.scope.name
             /\ o.pscope.version = o.scope.version
             /\ o.pscope.schema_url = o.scope.schema_url
             /\ o.pscope.attributes = o.scope.attributes

\* A meter_with_scope call with attributes and a meter("svc") call have delegated.
C10_Witness ==
    /\ \E o \in Delegations : o.kind = "scope" /\ o.scope.attributes # {}
    /\ \E o \in Delegations : o.kind = "meter" /\ o.name = "svc"

\* ---- C11 -----------------------------------------------------------------------
\* The references to handle h that exist: the RwLock's, the clones calls in
\* progress hold, and the clones callers keep.
Holders(h) ==
    (IF provider = h THEN 1 ELSE 0)
    + Cardinality({t \in Threads : HasClone(t) /\ op[t].local = h})
    + held[h]

\* C11: a handle a caller got from meter_provider() keeps referring to its
\* provider after the RwLock's content has been replaced; the provider value
\* is dropped exactly when the last reference goes (the RwLock's or a
\* clone), so nobody holds a handle to a dropped provider.
C11_SharedOwnership ==
    \A h \in AllHandles :
        /\ strong[h] = Holders(h)
        /\ h \in dropped <=> (Installed(h) /\ Holders(h) = 0)
        /\ held[h] > 0 => h \notin dropped /\ Installed(h)

\* A caller still holds a clone of a provider the RwLock no longer refers to,
\* while another replaced provider has been dropped.
C11_Witness ==
    /\ \E h \in AllHandles : held[h] > 0 /\ provider # h /\ h \notin dropped
    /\ dropped # {}

\* ---- C12 -----------------------------------------------------------------------
\* Calls between taking and dropping the write guard (lines 23-31).
WriteHolders == {t \in Threads : pc[t] \in {"store", "log", "unlock"}}
\* Calls between taking and dropping a read guard (lines 36-39).
ReadHolders == {t \in Threads : pc[t] = "read_unlock"}

\* C12: a set_meter_provider call holds the write guard alone: no other
\* set_meter_provider holds it and no meter_provider, meter or
\* meter_with_scope call holds a read guard at the same time.
C12_WriterExcludesAll ==
    /\ Cardinality(WriteHolders) <= 1
    /\ WriteHolders # {} => ReadHolders = {}
    /\ WriteHolders = (IF writer = 0 THEN {} ELSE {writer})
    /\ ReadHolders = readers

\* A set_meter_provider call holds the write guard while another call waits
\* for the lock.
C12_Witness ==
    /\ WriteHolders # {}
    /\ \E u \in Threads : pc[u] \in {"read", "write"}

\* Two calls hold read guards at the same time.
SharedReaders == Cardinality(ReadHolders) >= 2

\* ---- C13 -----------------------------------------------------------------------
\* Read call o overlapped set_meter_provider call p: p was issued before o
\* finished and had not returned when o was issued.
Overlaps(o, p) == p < o.next /\ p \notin o.done

\* No other set_meter_provider call overlapped p or o: every other one issued
\* before o finished had returned before p and before o were issued.
NoOtherOverlap(o, p) == SetsBy(o) \ {p} \subseteq (setLog[p].done \cap o.done)

\* The handle the RwLock holds when p is issued and nothing else is in flight:
\* the last one stored by the calls that returned before p, else the default.
OldOf(p) ==
    LET D == {q \in setLog[p].done : Installed(q)}
    IN  IF D = {} THEN NoopMeterProvider
        ELSE CHOOSE q \in D : \A r \in D : InstallIdx(q) >= InstallIdx(r)

\* C13: a meter_provider, meter or meter_with_scope call that overlaps an
\* in-flight set_meter_provider(Pnew), with no other set overlapping, observes
\* the provider held before (Pold) or Pnew, never a third one.
C13_OldOrNew ==
    \A o \in obs : \A p \in 1..(nextProv - 1) :
        (Overlaps(o, p) /\ NoOtherOverlap(o, p)) => o.handle \in {OldOf(p), p}

\* Of two read calls that overlapped the same set_meter_provider call, one
\* observed the old provider and the other the new one.
C13_Witness ==
    \E o1, o2 \in obs : \E p \in 1..(nextProv - 1) :
        /\ Overlaps(o1, p) /\ NoOtherOverlap(o1, p)
        /\ Overlaps(o2, p) /\ NoOtherOverlap(o2, p)
        /\ o1.handle = OldOf(p)
        /\ o2.handle = p

\* ---- C14 -----------------------------------------------------------------------
\* Thread t takes a step of a meter_provider, meter or meter_with_scope call
\* other than running the OnceLock's initialiser.
ReadStep(t) ==
    /\ op[t].kind \in ReadKinds
    /\ pc[t] # "once_run"
    /\ pc'[t] # pc[t]

\* The step is the one-time default initialisation.
InitialisesDefault ==
    once = "running" /\ once' = "done" /\ provider = Uninit
    /\ provider' = NoopMeterProvider

\* The step is the store of a set_meter_provider call that got the write
\* guard of the unpoisoned lock.
StoresArgument ==
    \E t \in Threads :
        /\ pc[t] = "store" /\ pc'[t] # "store"
        /\ op[t].kind = "set" /\ ~op[t].pois
        /\ writer = t
        /\ provider' = op[t].prov

\* C14: meter_provider, meter and meter_with_scope leave the RwLock's content
\* unchanged; the handle it refers to changes only in the one-time default
\* initialisation and in a set_meter_provider call that obtained the
\* unpoisoned lock.
C14_OnlySetMutates ==
    [][/\ (\E t \in Threads : ReadStep(t)) => provider' = provider
       /\ provider' # provider => (InitialisesDefault \/ StoresArgument)]_vars

\* A read call has finished on a provider a set_meter_provider call installed,
\* and the RwLock still holds that provider.
C14_Witness ==
    \E o \in obs : o.handle \in Providers /\ provider = o.handle

\* ---- C15 -----------------------------------------------------------------------
\* The events set_meter_provider call p has emitted (positions in the sink).
EventsOf(p) == {i \in 1..Len(events) : events[i].prov = p}
\* The set_meter_provider calls that unwound with a panic.
PanickedSets == {x.prov : x \in {y \in panics : y.kind = "set"}}
\* The set_meter_provider calls that are over, by return or by panic.
FinishedSets == Range(completed) \cup PanickedSets

\* Call p emitted one event, GlobalSet exactly if it stored its argument and
\* GlobalSetFailed exactly if it found the lock poisoned and stored nothing.
OneEvent(p) ==
    /\ Cardinality(EventsOf(p)) = 1
    /\ SetEvent("MeterProvider.GlobalSet", p) \in Range(events) <=> Installed(p)
    /\ SetEvent("MeterProvider.GlobalSetFailed", p) \in Range(events)
         <=> (setLog[p].state = "poisoned" /\ ~Installed(p))

\* Every event in the sink comes from a set_meter_provider call, and no call
\* has emitted two: the read calls emit none.
OnlySetsEmit ==
    /\ \A i \in 1..Len(events) : events[i].prov \in 1..(nextProv - 1)
    /\ \A p \in 1..(nextProv - 1) : Cardinality(EventsOf(p)) <= 1

\* C15 as stated: every set_meter_provider call emits exactly one event,
\* GlobalSet iff it replaced the binding, GlobalSetFailed iff the lock was
\* poisoned and the binding left unchanged; the read calls emit none.
C15_OneEventPerSet ==
    /\ \A p \in FinishedSets : OneEvent(p)
    /\ OnlySetsEmit

\* C15 amended: every set_meter_provider call that returns has emitted exactly
\* one event, GlobalSet iff it replaced the binding, GlobalSetFailed iff the
\* lock was poisoned and the binding left unchanged; a call that panics while
\* replacing the binding has emitted none although the binding holds its
\* argument; the read calls emit none.
C15_OneEventPerReturnedSet ==
    /\ \A p \in Range(completed) : OneEvent(p)
    /\ \A p \in PanickedSets : EventsOf(p) = {} /\ Installed(p)
    /\ OnlySetsEmit

\* One set_meter_provider call has returned after GlobalSet, one has panicked
\* while storing, and one has returned after GlobalSetFailed.
C15_Witness ==
    /\ \E p \in Range(completed) :
         SetEvent("MeterProvider.GlobalSet", p) \in Range(events)
    /\ \E p \in Range(completed) :
         SetEvent("MeterProvider.GlobalSetFailed", p) \in Range(events)
    /\ PanickedSets # {}

\* ---- C16 -----------------------------------------------------------------------
\* C16: under fair scheduling every started set_meter_provider,
\* meter_provider, meter and meter_with_scope call eventually returns, unless
\* the lock gets poisoned: a waiting writer gets the lock once its holders have
\* released it, waiting readers once the writer has.
C16_CallsComplete ==
    \A t \in Threads : (pc[t] # "idle") ~> (pc[t] = "idle" \/ poisoned)

\* A set_meter_provider call waits for the lock while a read guard is held.
C16_Witness ==
    \E t \in Threads : pc[t] = "write" /\ readers # {} /\ ~poisoned

\* ---- C17 -----------------------------------------------------------------------
\* C17: meter and meter_with_scope have dropped their read guard when they
\* call the provider: the delegated call runs with no lock of the registry
\* held by its thread, so it does not stand in the way of a
\* set_meter_provider call (of another thread or made by the provider itself).
C17_DelegateUnlocked ==
    \A t \in Threads :
        pc[t] = "delegate" =>
            /\ t \notin readers
            /\ writer # t
            /\ \A u \in Threads :
                 (pc[u] = "write" /\ WriteHolders = {} /\ ReadHolders = {})
                     => ENABLED SetWrite(u)

\* A set_meter_provider call holds the write guard while another thread is
\* inside the delegated provider call.
C17_Witness ==
    \E t, u \in Threads : pc[t] = "delegate" /\ writer = u /\ pc[u] = "log"

\* ---- C18 -----------------------------------------------------------------------
\* The step takes thread t from program point l to another one.
Leaves(t, l) == pc[t] = l /\ pc'[t] # l

\* C18: once the RwLock is poisoned it stays poisoned and keeps the handle it
\* holds: from then on every write() of set_meter_provider returns Err, the
\* call emits MeterProvider.GlobalSetFailed and stores nothing, and every
\* read() of meter_provider panics in expect.
C18_PoisonPermanent ==
    [][poisoned =>
          /\ poisoned'
          /\ provider' = provider
          /\ writes' = writes
          /\ \A t \in Threads :
               /\ Leaves(t, "write") => pc'[t] = "log" /\ ~op'[t].ok
               /\ pc[t] # "store"
               /\ Leaves(t, "log") =>
                    events' = Append(events,
                        SetEvent("MeterProvider.GlobalSetFailed", op[t].prov))
               /\ Leaves(t, "read") =>
                    /\ pc'[t] = "idle"
                    /\ panics' = panics \cup
                         {[id |-> op[t].id, kind |-> op[t].kind, prov |-> 0]}
                    /\ obs' = obs]_vars

\* A set_meter_provider call made after the poisoning has emitted
\* MeterProvider.GlobalSetFailed and released the lock, which is still
\* poisoned and still holds the handle stored by the panicked call.
C18_Witness ==
    /\ poisoned
    /\ \E x \in panics : x.kind = "set" /\ provider = x.prov
    /\ \E t \in Threads :
         /\ pc[t] = "set_ret" /\ op[t].pois
         /\ events[Len(events)] =
              SetEvent("MeterProvider.GlobalSetFailed", op[t].prov)

\* ---- C19 -----------------------------------------------------------------------
\* Positions in the event log of the MeterProvider.GlobalSet events.
GlobalSets == {i \in 1..Len(events) : events[i].name = "MeterProvider.GlobalSet"}

\* MeterProvider.GlobalSet has been emitted for handle h.
Announced(h) == SetEvent("MeterProvider.GlobalSet", h) \in Range(events)

\* C19: set_meter_provider holds the write guard from write() to the end of
\* its body, the diagnostic event included.  Hence every handle of a supplied
\* provider that a meter_provider, meter or meter_with_scope call has cloned
\* has its MeterProvider.GlobalSet event in the log already, and the
\* MeterProvider.GlobalSet events appear in the order of the stores.
C19_EventUnderLock ==
    /\ \A t \in Threads : pc[t] \in {"store", "log", "unlock"} => writer = t
    /\ \A t \in Threads :
         (HasClone(t) /\ op[t].local \in Providers) => Announced(op[t].local)
    /\ \A o \in obs : o.handle \in Providers => Announced(o.handle)
    /\ \A i, j \in GlobalSets :
         /\ Installed(events[i].prov)
         /\ i < j => InstallIdx(events[i].prov) < InstallIdx(events[j].prov)

\* Two set_meter_provider calls that overlapped have both emitted
\* MeterProvider.GlobalSet, and a later call has cloned the handle of the
\* second one.
C19_Witness ==
    /\ GlobalSets = {1, 2}
    /\ setLog[events[2].prov].done = {}
    /\ \E t \in Threads : HasClone(t) /\ op[t].local = events[2].prov

====
